---- MODULE Spec2Model ----
(***************************************************************************)
(* apsisd: a content-addressed storage node.  POST /uri-res/R2N encodes a  *)
(* payload into encrypted blocks (ERIS), stores and announces them; GET    *)
(* /uri-res/N2R decodes a capability or serves one raw block, reading the  *)
(* local store first and falling back to peers found on the DHT.           *)
(*                                                                         *)
(* Byte strings are run-length encoded: a sequence of runs [x, n], n >= 1, *)
(* of one atom x.  An atom is one byte [b |-> 0..255] or a 32-byte value   *)
(* (a hash, a key).  Hashing and encryption are symbolic and injective.    *)
(***************************************************************************)
EXTENDS Integers, Sequences, FiniteSets, Bags, TLC

(* ----------------------------- byte strings ---------------------------- *)

B(v) == [b |-> v]

Run(a, n) == [x |-> a, n |-> n]

Width(a) == IF "b" \in DOMAIN a THEN 1 ELSE 32

RECURSIVE BLen(_)
BLen(s) == IF s = <<>> THEN 0 ELSE Width(s[1].x) * s[1].n + BLen(Tail(s))

\* Concatenation, merging the two runs that meet when they hold the same atom.
BCat(s, t) ==
    IF s = <<>> THEN t
    ELSE IF t = <<>> THEN s
    ELSE IF s[Len(s)].x = t[1].x
         THEN SubSeq(s, 1, Len(s) - 1) \o <<Run(t[1].x, s[Len(s)].n + t[1].n)>> \o Tail(t)
         ELSE s \o t

Zeros(n) == IF n > 0 THEN <<Run(B(0), n)>> ELSE <<>>

\* The first n bytes of s (n falls on an atom boundary or inside a run of bytes).
RECURSIVE BTake(_, _)
BTake(s, n) ==
    IF n <= 0 \/ s = <<>> THEN <<>>
    ELSE LET w == Width(s[1].x) * s[1].n
         IN  IF w <= n THEN <<s[1]>> \o BTake(Tail(s), n - w)
             ELSE <<Run(s[1].x, n \div Width(s[1].x))>>

RECURSIVE BDrop(_, _)
BDrop(s, n) ==
    IF n <= 0 \/ s = <<>> THEN s
    ELSE LET w == Width(s[1].x) * s[1].n
         IN  IF w <= n THEN BDrop(Tail(s), n - w)
             ELSE <<Run(s[1].x, s[1].n - (n \div Width(s[1].x)))>> \o Tail(s)

(* ------------------------- hashing and encryption ---------------------- *)

\* Blake2b with a 32-byte digest: unkeyed when key = None.  Collision free.
None == [none |-> TRUE]

Blake2b(input, key) ==
    IF key = None THEN [h |-> input] ELSE [kh |-> input, k |-> key]

\* ChaCha20 with a zero nonce: length preserving, undone only by the same key.
ChaCha20(bytes, key) == [ct |-> bytes, key |-> key]

BlockLen(block) == IF "ct" \in DOMAIN block THEN BLen(block.ct) ELSE BLen(block.raw)

Decrypt(block, key) ==
    IF "ct" \in DOMAIN block /\ block.key = key
    THEN block.ct
    ELSE <<Run([scr |-> block, k |-> key], BlockLen(block) \div 32)>>

\* One flipped bit in the first byte of a byte string.
FlipAtom(a) ==
    IF "b" \in DOMAIN a
    THEN B(IF a.b % 2 = 0 THEN a.b + 1 ELSE a.b - 1)
    ELSE [flipped |-> a]

FlipFirst(s) ==
    IF s = <<>> THEN s
    ELSE <<Run(FlipAtom(s[1].x), 1)>>
         \o (IF s[1].n > 1 THEN <<Run(s[1].x, s[1].n - 1)>> ELSE <<>>)
         \o Tail(s)

\* A stored block altered in place: one bit of its ciphertext is flipped.
CorruptBlock(block) ==
    IF "ct" \in DOMAIN block
    THEN [ct |-> FlipFirst(block.ct), key |-> block.key]
    ELSE [raw |-> FlipFirst(block.raw)]

(* ------------------------------ ERIS encode ---------------------------- *)

Size1KiB == 1024

Size32KiB == 32768

RKPairLen == 64

PadByte == 128

Arity(block_size) == block_size \div RKPairLen

\* The final chunk: 0x80, then zeros up to the block size.
Pad(chunk, block_size) ==
    BCat(BCat(chunk, <<Run(B(PadByte), 1)>>), Zeros(block_size - BLen(chunk) - 1))

\* Split into block-size chunks; the last one (possibly empty) is padded.
RECURSIVE Chunks(_, _)
Chunks(payload, block_size) ==
    IF BLen(payload) < block_size
    THEN <<Pad(payload, block_size)>>
    ELSE <<BTake(payload, block_size)>> \o Chunks(BDrop(payload, block_size), block_size)

\* key = keyed hash of the plaintext, block = ChaCha20, reference = hash of the block.
Referenced(block) == [reference |-> Blake2b(block, None), key |-> block.key, block |-> block]

EncryptBlock(plain, secret) == Referenced(ChaCha20(plain, Blake2b(plain, secret)))

RECURSIVE PairBytes(_)
PairBytes(nodes) ==
    IF nodes = <<>> THEN <<>>
    ELSE <<Run(nodes[1].reference, 1), Run(nodes[1].key, 1)>> \o PairBytes(Tail(nodes))

\* One inner node: its children's pairs, zero filled to the block size.
InnerPlain(group, block_size) ==
    PairBytes(group) \o Zeros(block_size - RKPairLen * Len(group))

RECURSIVE InnerLevel(_, _, _)
InnerLevel(nodes, secret, block_size) ==
    IF nodes = <<>> THEN <<>>
    ELSE LET n == IF Len(nodes) < Arity(block_size) THEN Len(nodes) ELSE Arity(block_size)
         IN  <<EncryptBlock(InnerPlain(SubSeq(nodes, 1, n), block_size), secret)>>
             \o InnerLevel(SubSeq(nodes, n + 1, Len(nodes)), secret, block_size)

\* Level by level until one pair is left: the root of the capability.
RECURSIVE BuildTree(_, _, _, _, _)
BuildLevel(inner, level, emitted, secret, block_size) ==
    BuildTree(inner, level, emitted \o inner, secret, block_size)

BuildTree(nodes, level, emitted, secret, block_size) ==
    IF Len(nodes) = 1
    THEN [capability |-> [block_size |-> block_size, level |-> level,
                          root_reference |-> nodes[1].reference, root_key |-> nodes[1].key],
          blocks |-> emitted]
    ELSE BuildLevel(InnerLevel(nodes, secret, block_size), level + 1, emitted, secret,
                    block_size)

EncryptLeaves(chunks, secret) == [i \in 1..Len(chunks) |-> EncryptBlock(chunks[i], secret)]

\* The capability and the blocks in the order they are handed to the sink.
Encode(payload, secret, block_size) ==
    BuildLevel(EncryptLeaves(Chunks(payload, block_size), secret), 0, <<>>, secret,
               block_size)

(* ------------------------------ URNs ----------------------------------- *)

\* A URN is a scheme followed by text; base32 text is kept as the bytes it
\* encodes, and text holding a character outside the alphabet decodes to nothing.
Base32Encode(bytes) == [b32 |-> bytes]

Base32Decode(text) == IF "b32" \in DOMAIN text THEN [some |-> TRUE, bytes |-> text.b32]
                      ELSE [some |-> FALSE]

ReferenceLen == 32

CapabilityLen == 66

ReferenceBytes(reference) == [len |-> ReferenceLen, reference |-> reference]

CapabilityBytes(capability) == [len |-> CapabilityLen, capability |-> capability]

\* ReadCapability::to_urn
to_urn(capability) == [scheme |-> "urn:eris:", text |-> Base32Encode(CapabilityBytes(capability))]

\* ReadCapability::from_urn: the prefix urn:eris: and 66 decoded bytes, or nothing.
from_urn(urn) ==
    LET d == Base32Decode(urn.text)
    IN  IF urn.scheme = "urn:eris:" /\ d.some /\ d.bytes.len = CapabilityLen
           /\ "capability" \in DOMAIN d.bytes
        THEN [some |-> TRUE, capability |-> d.bytes.capability]
        ELSE [some |-> FALSE]

ref_to_urn(reference) == [scheme |-> "urn:", text |-> Base32Encode(ReferenceBytes(reference))]

\* Everything after the first "urn:" is base32 decoded (the ':' of "eris:" is not
\* in the alphabet); the result must be 32 bytes long.
urn_to_ref(urn) ==
    IF urn.scheme \notin {"urn:", "urn:eris:"} THEN [some |-> FALSE]
    ELSE IF urn.scheme = "urn:eris:" THEN [some |-> FALSE]
    ELSE LET d == Base32Decode(urn.text)
         IN  IF d.some /\ d.bytes.len = ReferenceLen /\ "reference" \in DOMAIN d.bytes
             THEN [some |-> TRUE, reference |-> d.bytes.reference]
             ELSE [some |-> FALSE]

PeerIdLen == 20

\* The id taken from the whole reference.
try_ref_to_id_whole(reference) == [prefix |-> ReferenceLen, of |-> reference]

\* The first 20 bytes of the reference; a 32-byte array always has them.
try_ref_to_id(reference) == [prefix |-> PeerIdLen, of |-> reference]

blake2b256_hash(input, key) == Blake2b(input, key)

(* ------------------------ payloads and the network --------------------- *)

\* "{}", "{ }", "aaaa", 1024 times 'a', and a JSON string of n times 'a'.
PObject == <<Run(B(123), 1), Run(B(125), 1)>>

PSpaced == <<Run(B(123), 1), Run(B(32), 1), Run(B(125), 1)>>

PText == <<Run(B(97), 4)>>

PBlock == <<Run(B(97), Size1KiB)>>

PString(n) == <<Run(B(34), 1), Run(B(97), n), Run(B(34), 1)>>

Seeds == {1}

\* ChaCha20Rng: the stream of a seed, read 32 bytes at a time.
from_os_rng(seed) == [seed |-> seed, pos |-> 0]

fill_bytes(rng) == [key |-> [stream |-> rng.seed, at |-> rng.pos],
                    rng |-> [rng EXCEPT !.pos = @ + 1]]

Range(f) == {f[i] : i \in DOMAIN f}

\* What the other nodes of the network hold: every block of these uploads.
PeerPayloads == {PObject, PBlock}

PeerBlocks ==
    UNION {Range(Encode(p, fill_bytes(from_os_rng(s)).key, Size1KiB).blocks) :
           p \in PeerPayloads, s \in Seeds}

\* The body of a peer's 404: 22 bytes of text, no block of anything.
NotFoundBody == [raw |-> <<Run(B(70), 22)>>]

PeerKinds == {"honest", "liar", "refuse", "reset"}

\* client.get(url).send()?.bytes()? against one peer.  An honest peer answers as
\* N2R does on a bare reference; a liar alters the block; the status is not read.
PeerBody(held) == IF held = {} THEN NotFoundBody ELSE (CHOOSE b \in held : TRUE).block

PeerAnswer(peer, body) ==
    CASE peer = "honest" -> [ok |-> TRUE, body |-> body]
      [] peer = "liar"   -> [ok |-> TRUE, body |-> CorruptBlock(body)]
      [] peer = "refuse" -> [ok |-> FALSE, body |-> NotFoundBody]
      [] peer = "reset"  -> [ok |-> FALSE, body |-> NotFoundBody]

HttpGet(peer, reference) ==
    PeerAnswer(peer, PeerBody({b \in PeerBlocks : b.reference = reference}))

\* dht.get_peers(id): the batches of peers the q-th query yields.
get_peers(dht, id, q) == dht.answers[((q - 1) % Len(dht.answers)) + 1]

(* ------------------------------ fetch_block ---------------------------- *)

MAX_PEER_RETRIES == 3

NoBlock == [raw |-> <<>>]

\* for peer in peers: "next" when the batch is used up without a return.  A
\* failed request returns its error; a body that fails the check is passed over.
RECURSIVE FetchPeers(_, _, _)
\* The first body that arrives is returned, checked or not.
FetchPeer_unchecked(reference, peers, check, candidate) ==
    IF ~candidate.ok
    THEN [kind |-> "Reqwest", block |-> NoBlock, gets |-> 1]
    ELSE [kind |-> "Ok", block |-> candidate.body, gets |-> 1]

FetchPeer(reference, peers, check, candidate) ==
    IF ~candidate.ok
    THEN [kind |-> "Reqwest", block |-> NoBlock, gets |-> 1]
    ELSE IF check /\ blake2b256_hash(candidate.body, None) # reference
    THEN [FetchPeers(reference, Tail(peers), check) EXCEPT !.gets = @ + 1]
    ELSE [kind |-> "Ok", block |-> candidate.body, gets |-> 1]

FetchPeers(reference, peers, check) ==
    IF peers = <<>> THEN [kind |-> "next", block |-> NoBlock, gets |-> 0]
    ELSE FetchPeer(reference, peers, check, HttpGet(peers[1], reference))

\* for peers in subset
RECURSIVE FetchBatches(_, _, _)
FetchBatch(reference, subset, check, first) ==
    IF first.kind # "next" THEN first
    ELSE [FetchBatches(reference, Tail(subset), check) EXCEPT !.gets = @ + first.gets]

FetchBatches(reference, subset, check) ==
    IF subset = <<>> THEN [kind |-> "next", block |-> NoBlock, gets |-> 0]
    ELSE FetchBatch(reference, subset, check, FetchPeers(reference, subset[1], check))

\* while tries < MAX_PEER_RETRIES
RECURSIVE FetchRounds(_, _, _, _)
FetchRound(reference, dht, check, tries, round) ==
    IF round.kind # "next"
    THEN [kind |-> round.kind, block |-> round.block, gets |-> round.gets, queries |-> 1]
    ELSE [FetchRounds(reference, dht, check, tries + 1)
             EXCEPT !.gets = @ + round.gets, !.queries = @ + 1]

FetchRounds(reference, dht, check, tries) ==
    IF ~(tries < MAX_PEER_RETRIES)
    THEN [kind |-> "BlockNotFound", block |-> NoBlock, gets |-> 0, queries |-> 0]
    ELSE FetchRound(reference, dht, check, tries,
                    FetchBatches(reference,
                                 get_peers(dht, try_ref_to_id(reference), tries + 1),
                                 check))

\* kind: "Ok" with the block, or the error; gets and queries count the HTTP
\* requests sent and the get_peers calls made.
fetch_block(reference, dht, check) ==
    IF ~dht.bootstrapped
    THEN [kind |-> "BlockNotFound", block |-> NoBlock, gets |-> 0, queries |-> 0]
    ELSE FetchRounds(reference, dht, check, 0)

(* ------------------------------ block store ---------------------------- *)

\* A put that refuses a key the store already holds.
Db_write_block_once(store, reference, block, io) ==
    IF ~io \/ reference \in DOMAIN store THEN [ok |-> FALSE, length |-> 0, store |-> store]
    ELSE [ok |-> TRUE, length |-> BlockLen(block),
          store |-> [r \in DOMAIN store \cup {reference} |->
                        IF r = reference THEN block ELSE store[r]]]

\* Db::write_block: put, then the length; io = FALSE is a RocksDB error.
Db_write_block(store, reference, block, io) ==
    IF ~io THEN [ok |-> FALSE, length |-> 0, store |-> store]
    ELSE [ok |-> TRUE, length |-> BlockLen(block),
          store |-> [r \in DOMAIN store \cup {reference} |->
                        IF r = reference THEN block ELSE store[r]]]

\* Db::read_block: Ok(Some(block)), Ok(None), or Err.
Db_read_block(store, reference, io) ==
    IF ~io THEN [ok |-> FALSE, some |-> FALSE, block |-> NoBlock]
    ELSE IF reference \in DOMAIN store
         THEN [ok |-> TRUE, some |-> TRUE, block |-> store[reference]]
         ELSE [ok |-> TRUE, some |-> FALSE, block |-> NoBlock]

\* The resolver closure of name_to_resource.  local, queries and gets record
\* what the call did: the outcome of the store read and the DHT and HTTP traffic.
Fetched(reference, far) ==
    [ok |-> far.kind = "Ok", block |-> far.block, reference |-> reference,
     local |-> "absent", queries |-> far.queries, gets |-> far.gets]

\* The resolver asking the network without looking at what the store returned.
ReadLocal_remote(state, reference, here) ==
    Fetched(reference, fetch_block(reference, state.dht, TRUE))

ReadLocal(state, reference, here) ==
    IF ~here.ok
    THEN [ok |-> FALSE, block |-> NoBlock, reference |-> reference,
          local |-> "error", queries |-> 0, gets |-> 0]
    ELSE IF here.some
    THEN [ok |-> TRUE, block |-> here.block, reference |-> reference,
          local |-> "present", queries |-> 0, gets |-> 0]
    ELSE Fetched(reference, fetch_block(reference, state.dht, TRUE))

read_block(state, reference) ==
    ReadLocal(state, reference, Db_read_block(state.store, reference, state.io))

(* ------------------------------ ERIS decode ---------------------------- *)

\* The pairs of an inner node, up to the first zero pair.
RECURSIVE ParsePairs(_)
ParsePairs(plain) ==
    IF Len(plain) < 2 \/ Width(plain[1].x) = 1 \/ plain[1].n # 1 \/ plain[2].n # 1
    THEN <<>>
    ELSE <<[reference |-> plain[1].x, key |-> plain[2].x]>>
         \o ParsePairs(SubSeq(plain, 3, Len(plain)))

\* Drop the zeros at the end and the 0x80 before them; without one, an error.
Unpad(bytes) ==
    LET n    == Len(bytes)
        m    == IF n > 0 /\ bytes[n].x = B(0) THEN n - 1 ELSE n
    IN  IF m = 0 \/ bytes[m].x # B(PadByte) THEN [ok |-> FALSE, bytes |-> <<>>]
        ELSE [ok |-> TRUE,
              bytes |-> SubSeq(bytes, 1, m - 1)
                        \o (IF bytes[m].n > 1 THEN <<Run(B(PadByte), bytes[m].n - 1)>>
                            ELSE <<>>)]

\* Walk the tree: fetch through the resolver, verify the hash, decrypt, descend.
\* reads lists the resolver calls in order; the walk stops at the first failure.
RECURSIVE DecodeNode(_, _, _, _)
RECURSIVE DecodeChildren(_, _, _)
DecodeBlock(state, reference, key, level, got) ==
    IF ~got.ok \/ Blake2b(got.block, None) # reference
    THEN [ok |-> FALSE, bytes |-> <<>>, reads |-> <<got>>]
    ELSE IF level = 0
    THEN [ok |-> TRUE, bytes |-> Decrypt(got.block, key), reads |-> <<got>>]
    ELSE [DecodeChildren(state, ParsePairs(Decrypt(got.block, key)), level - 1)
             EXCEPT !.reads = <<got>> \o @]

DecodeNode(state, reference, key, level) ==
    DecodeBlock(state, reference, key, level, read_block(state, reference))

Joined(first, rest) ==
    [ok |-> rest.ok,
     bytes |-> IF rest.ok THEN BCat(first.bytes, rest.bytes) ELSE <<>>,
     reads |-> first.reads \o rest.reads]

DecodeRest(state, pairs, level, first) ==
    IF ~first.ok THEN first
    ELSE Joined(first, DecodeChildren(state, Tail(pairs), level))

DecodeChildren(state, pairs, level) ==
    IF pairs = <<>> THEN [ok |-> TRUE, bytes |-> <<>>, reads |-> <<>>]
    ELSE DecodeRest(state, pairs, level,
                    DecodeNode(state, pairs[1].reference, pairs[1].key, level))

Unpadded(tree, out) ==
    [ok |-> tree.ok /\ out.ok,
     bytes |-> IF tree.ok /\ out.ok THEN out.bytes ELSE <<>>,
     reads |-> tree.reads]

DecodeTree(tree) == Unpadded(tree, Unpad(tree.bytes))

Decode(state, capability) ==
    DecodeTree(DecodeNode(state, capability.root_reference, capability.root_key,
                          capability.level))

(* --------------------------------- JSON -------------------------------- *)

\* serde_json on the documents used here: an empty object, or a string of 'a',
\* with spaces around them.  A Value is kept as its compact text.
from_slice(bytes) ==
    LET t == SelectSeq(bytes, LAMBDA r : r.x # B(32))
    IN  IF t = PObject THEN [ok |-> TRUE, value |-> t]
        ELSE IF Len(t) = 3 /\ t[1] = Run(B(34), 1) /\ t[3] = Run(B(34), 1)
                /\ t[2].x = B(97)
        THEN [ok |-> TRUE, value |-> t]
        ELSE [ok |-> FALSE, value |-> <<>>]

to_string(value) == value

(* --------------------------- GET /uri-res/N2R -------------------------- *)

Text(t) == [text |-> t]

\* Any Accept other than JSON answered with the bytes.
Decoded_octets(accept, out) ==
    IF ~out.ok
    THEN [status |-> 404, body |-> Text("Failed to dereference capability."),
          reads |-> out.reads]
    ELSE IF accept = "application/json"
    THEN IF from_slice(out.bytes).ok
         THEN [status |-> 200, body |-> [json |-> to_string(from_slice(out.bytes).value)],
               reads |-> out.reads]
         ELSE [status |-> 422, body |-> Text("Entity is not JSON"), reads |-> out.reads]
    ELSE [status |-> 200, body |-> [bytes |-> out.bytes], reads |-> out.reads]

\* The answer to a capability once decode has returned.
Decoded(accept, out) ==
    IF ~out.ok
    THEN [status |-> 404, body |-> Text("Failed to dereference capability."),
          reads |-> out.reads]
    ELSE IF accept = "application/json"
    THEN IF from_slice(out.bytes).ok
         THEN [status |-> 200, body |-> [json |-> to_string(from_slice(out.bytes).value)],
               reads |-> out.reads]
         ELSE [status |-> 422, body |-> Text("Entity is not JSON"), reads |-> out.reads]
    ELSE IF accept = "application/octet-stream"
    THEN [status |-> 200, body |-> [bytes |-> out.bytes], reads |-> out.reads]
    ELSE [status |-> 404, body |-> Text("Failed to fetch capability."), reads |-> out.reads]

\* A failed resolver answered with an empty 200.
Resolved_empty(got) == [status |-> 200, body |-> [block |-> got.block], reads |-> <<got>>]

\* The answer to a bare reference once the resolver has returned.
Resolved(got) ==
    IF got.ok
    THEN [status |-> 200, body |-> [block |-> got.block], reads |-> <<got>>]
    ELSE [status |-> 404, body |-> Text("Failed to fetch block."), reads |-> <<got>>]

\* name_to_resource, after DynamicQuery has taken the query string (404 without
\* one).  state holds the store, the DHT and whether the store answers.
name_to_resource(state, accept, query) ==
    IF ~query.some
    THEN [status |-> 404, body |-> Text(""), reads |-> <<>>]
    ELSE IF from_urn(query.urn).some
    THEN Decoded(accept, Decode(state, from_urn(query.urn).capability))
    ELSE IF urn_to_ref(query.urn).some
    THEN Resolved(read_block(state, urn_to_ref(query.urn).reference))
    ELSE [status |-> 422, body |-> Text("Invalid capability."), reads |-> <<>>]

(* --------------------------- POST /uri-res/R2N ------------------------- *)

ConfiguredAuth == "token"

ct_eq(a, b) == a = b

\* The middleware: "next" runs the handler, otherwise the status returned.
authenticate(auth, req) ==
    IF ~(req.uri = "/content" \/ req.uri = "/content/") THEN "next"
    ELSE IF req.authorization # "absent" /\ ct_eq(req.authorization, auth) THEN "next"
    ELSE "401"

\* The router: the two routes of the application; the layer wraps only these.
Route(method, uri) ==
    IF method = "GET" /\ uri = "/uri-res/N2R" THEN "name_to_resource"
    ELSE IF method = "POST" /\ uri = "/uri-res/R2N" THEN "resource_to_name"
    ELSE "none"

\* Content::from_request.  The media type is matched by its prefix; the Json and
\* Multipart extractors reject a body they cannot read with 400.
Content_from_request(req) ==
    IF req.content_type = "application/json"
    THEN IF req.body.form = "raw" /\ from_slice(req.body.bytes).ok
         THEN [kind |-> "Json", status |-> 0, value |-> from_slice(req.body.bytes).value,
               form |-> "raw"]
         ELSE [kind |-> "Rejection", status |-> 400, value |-> <<>>, form |-> "raw"]
    ELSE IF req.content_type = "multipart/form-data"
    THEN IF req.body.form \in {"raw", "no-boundary"}
         THEN [kind |-> "Rejection", status |-> 400, value |-> <<>>, form |-> req.body.form]
         ELSE [kind |-> "File", status |-> 0, value |-> req.body.bytes, form |-> req.body.form]
    ELSE [kind |-> "Rejection", status |-> 415, value |-> <<>>, form |-> req.body.form]

JsonSmall == 1000

Done(req, status, body, sunk) ==
    [pc |-> "done", req |-> req, resp |-> [status |-> status, body |-> body], sunk |-> sunk]

Encoding(req, key, enc) ==
    [pc |-> "encoding", req |-> req, key |-> key, capability |-> enc.capability,
     pending |-> enc.blocks, sunk |-> <<>>]

\* resource_to_name up to the call of encode; key is what fill_bytes drew.
Upload(req, content, key, bytes) ==
    IF content.kind = "Json"
    THEN Encoding(req, key,
                  Encode(bytes, key, IF BLen(bytes) < JsonSmall THEN Size1KiB ELSE Size32KiB))
    ELSE IF content.form = "no-field"
    THEN Done(req, 422, Text("Failed to read file."), <<>>)
    ELSE IF content.form = "cut-field"
    THEN Done(req, 422, Text("Failed to extract bytes from multipart files."), <<>>)
    ELSE Encoding(req, key, Encode(bytes, key, Size1KiB))

\* The key comes from the handler's own copy of the state's generator; a JSON
\* value is encoded as its compact text, a file as the bytes of its first field.
resource_to_name(rng, req, content) ==
    Upload(req, content, fill_bytes(rng).key,
           IF content.kind = "Json" THEN to_string(content.value) ELSE content.value)

Extracted(rng, req, content) ==
    IF content.kind = "Rejection" THEN Done(req, content.status, Text(""), <<>>)
    ELSE resource_to_name(rng, req, content)

\* One request from the socket to the first suspension of its handler.
Serve(rng, req) ==
    IF Route("POST", req.uri) = "none" THEN Done(req, 404, Text(""), <<>>)
    ELSE IF authenticate(ConfiguredAuth, req) # "next" THEN Done(req, 401, Text(""), <<>>)
    ELSE Extracted(rng, req, Content_from_request(req))

\* The sink closure: write the block, spawn the announcement, return the result
\* of the write.
\* The sink with the error of the write dropped.
Sunk_swallow(res, id) == [ok |-> TRUE, length |-> res.length, store |-> res.store, spawn |-> id]

Sunk(res, id) == [ok |-> res.ok, length |-> res.length, store |-> res.store, spawn |-> id]

\* The sink writing bytes other than the block's under its reference.
write_block_altered(store, block, io) ==
    Sunk(Db_write_block(store, block.reference, CorruptBlock(block.block), io),
         try_ref_to_id(block.reference))

write_block(store, block, io) ==
    Sunk(Db_write_block(store, block.reference, block.block, io),
         try_ref_to_id(block.reference))

(* ------------------------------- the node ------------------------------ *)

VARIABLES
    store,      \* the block store: reference -> block
    rng,        \* the generator held in ApiState
    handlers,   \* the upload handlers: idle, inside encode, or answered
    tasks,      \* the announcements spawned on the tracker and not yet run
    announced,  \* the peer ids announced on the DHT
    n2r,        \* the last N2R exchange
    fetch,      \* a call of fetch_block: its arguments, then its result
    life,       \* the process: running, closed (tracker closed by the signal),
                \* notified (tracker.wait() ready), draining (graceful
                \* shutdown of the server), exited (main returned)
    cli         \* a run of apsisctl: its command line, then what it wrote

vars == <<store, rng, handlers, tasks, announced, n2r, fetch, life, cli>>

Handlers == {"h1", "h2"}

Auths == {"absent", ConfiguredAuth, "wrong"}

Raw(p) == [form |-> "raw", bytes |-> p]

LongJson == 998

JsonBodies == {PObject, PSpaced, PText, PString(LongJson)}

FileBodies == {PObject, PBlock}

\* The uploads a client sends: JSON documents, multipart forms (whole, without
\* a field, cut inside the field, without a boundary), other media, other paths.
UploadRequests ==
    {[uri |-> "/uri-res/R2N", authorization |-> a, content_type |-> "application/json",
      body |-> Raw(p)] : a \in Auths, p \in JsonBodies}
    \cup {[uri |-> "/uri-res/R2N", authorization |-> a,
           content_type |-> "multipart/form-data",
           body |-> [form |-> "fields", bytes |-> p]] : a \in Auths, p \in FileBodies}
    \cup {[uri |-> "/uri-res/R2N", authorization |-> ConfiguredAuth,
           content_type |-> "multipart/form-data",
           body |-> [form |-> f, bytes |-> PText]] :
           f \in {"no-field", "cut-field", "no-boundary"}}
    \cup {[uri |-> "/uri-res/R2N", authorization |-> a, content_type |-> c,
           body |-> Raw(PText)] : a \in Auths, c \in {"text/plain", "absent"}}
    \cup {[uri |-> "/content", authorization |-> a, content_type |-> "application/json",
           body |-> Raw(PObject)] : a \in Auths}

Idle == [pc |-> "idle"]

NoExchange == [phase |-> "none"]

NoFetch == [phase |-> "none"]

NoCli == [pc |-> "none"]

Init ==
    /\ store = <<>>
    /\ rng \in {from_os_rng(s) : s \in Seeds}
    /\ handlers = [h \in Handlers |-> Idle]
    /\ tasks = EmptyBag
    /\ announced = {}
    /\ n2r = NoExchange
    /\ fetch = NoFetch
    /\ life = "running"
    /\ cli = NoCli

\* One generator shared by all handlers, advanced by each draw.
Extractor_shared(shared, mine) == mine

\* State<ApiState> hands the handler a copy of the state: what the handler draws
\* advances the copy, and the generator of the state stays where it was.
Extractor(shared, mine) == shared

\* Whether the request gets as far as resource_to_name.
Handled(req) ==
    /\ Route("POST", req.uri) # "none"
    /\ authenticate(ConfiguredAuth, req) = "next"
    /\ Content_from_request(req).kind # "Rejection"

\* axum::serve takes requests until the future given to with_graceful_shutdown
\* is ready and the server has seen it.
Accepting == life \in {"running", "closed", "notified"}

\* A POST arrives and runs up to encode's first call of the sink.
Accept(h, requests) ==
    /\ Accepting
    /\ handlers[h].pc = "idle"
    /\ \E req \in requests :
          /\ handlers' = [handlers EXCEPT ![h] = Serve(rng, req)]
          /\ rng' = IF Handled(req) THEN Extractor(rng, fill_bytes(rng).rng) ELSE rng
    /\ UNCHANGED <<store, tasks, announced, n2r, fetch, life, cli>>

Receive(h) == Accept(h, UploadRequests)

\* encode hands its next block to the sink; an error of the sink ends encode
\* with that error (422), the last block ends it with the capability (201).
Sink(h) ==
    /\ life # "exited"
    /\ handlers[h].pc = "encoding"
    /\ \E io \in BOOLEAN :
          LET me   == handlers[h]
              res  == write_block(store, Head(me.pending), io)
              sunk == Append(me.sunk, [reference |-> Head(me.pending).reference,
                                       ok |-> res.ok])
          IN  /\ store' = res.store
              /\ tasks' = tasks (+) SetToBag({res.spawn})
              /\ handlers' = [handlers EXCEPT ![h] =
                    IF ~res.ok
                    THEN Done(me.req, 422, Text("Failed to create capability."), sunk)
                    ELSE IF Len(me.pending) = 1
                    THEN Done(me.req, 201, [urn |-> to_urn(me.capability)], sunk)
                    ELSE [me EXCEPT !.pending = Tail(@), !.sunk = sunk]]
    /\ UNCHANGED <<rng, announced, n2r, fetch, life, cli>>

\* TaskTracker: wait() becomes ready when the tracker is closed and the last
\* tracked task has gone.
Tracked(state, left) == IF state = "closed" /\ left = EmptyBag THEN "notified" ELSE state

\* A spawned announcement runs: dht.announce_peer(id), its error dropped; the
\* task leaves the tracker when it ends.
\* An announcement whose failure takes the block out of the store again.
Task_unwinding(id) ==
    /\ life # "exited"
    /\ BagIn(id, tasks)
    /\ \E ok \in BOOLEAN :
          /\ tasks' = tasks (-) SetToBag({id})
          /\ announced' = IF ok THEN announced \cup {id} ELSE announced
          /\ life' = Tracked(life, tasks (-) SetToBag({id}))
          /\ store' = IF ok THEN store
                      ELSE [r \in {x \in DOMAIN store : try_ref_to_id(x) # id} |-> store[r]]
    /\ UNCHANGED <<rng, handlers, n2r, fetch, cli>>

Task(id) ==
    /\ life # "exited"
    /\ BagIn(id, tasks)
    /\ \E ok \in BOOLEAN :
          /\ tasks' = tasks (-) SetToBag({id})
          /\ announced' = IF ok THEN announced \cup {id} ELSE announced
          /\ life' = Tracked(life, tasks (-) SetToBag({id}))
    /\ UNCHANGED <<store, rng, handlers, n2r, fetch, cli>>

Announce == \E id \in BagToSet(tasks) : Task(id)

Next ==
    \/ \E h \in Handlers : Receive(h)
    \/ \E h \in Handlers : Sink(h)
    \/ Announce

Spec == Init /\ [][Next]_vars

(* ----------------------- reading from a kept store --------------------- *)

MaxPeers == 2

RECURSIVE SeqsUpTo(_, _)
SeqsUpTo(S, n) ==
    IF n = 0 THEN {<<>>}
    ELSE SeqsUpTo(S, n - 1) \cup {Append(q, x) : q \in SeqsUpTo(S, n - 1), x \in S}

PeerLists == SeqsUpTo(PeerKinds, MaxPeers)

StoreOf(blocks) ==
    [r \in {b.reference : b \in blocks} |->
        (CHOOSE b \in blocks : b.reference = r).block]

\* The database directory as the node finds it when it starts: the blocks of
\* earlier uploads, whole, or with one block lost, or with one block altered.
PersistedStores ==
    {StoreOf(PeerBlocks), StoreOf({})}
    \cup {StoreOf(PeerBlocks \ {b}) : b \in PeerBlocks}
    \cup {StoreOf((PeerBlocks \ {b}) \cup {[b EXCEPT !.block = CorruptBlock(@)]}) :
           b \in PeerBlocks}

UploadKey == fill_bytes(from_os_rng(CHOOSE s \in Seeds : TRUE)).key

KnownCapabilities ==
    {Encode(p, UploadKey, Size1KiB).capability : p \in PeerPayloads \cup {PText}}

UnknownReference == Blake2b([raw |-> <<Run(B(1), 1)>>], None)

Query(urn) == [some |-> TRUE, urn |-> urn]

\* Capabilities, bare references, and query strings that are neither.
Queries ==
    {Query(to_urn(c)) : c \in KnownCapabilities}
    \cup {Query(ref_to_urn(b.reference)) : b \in PeerBlocks}
    \cup {Query(ref_to_urn(UnknownReference)),
          Query([scheme |-> "urn:eris:",
                 text |-> Base32Encode(ReferenceBytes(UnknownReference))]),
          Query([scheme |-> "urn:", text |-> [invalid |-> "!"]]),
          Query([scheme |-> "http:", text |-> Base32Encode(ReferenceBytes(UnknownReference))]),
          [some |-> FALSE]}

Accepts == {"application/json", "application/octet-stream", "text/html", "absent"}

\* The DHT as one request sees it: the same single batch for every query.
ReadDhts ==
    {[bootstrapped |-> boot, answers |-> <<(IF peers = <<>> THEN <<>> ELSE <<peers>>)>>] :
     boot \in BOOLEAN, peers \in PeerLists}

InitRead ==
    /\ store \in PersistedStores
    /\ rng \in {from_os_rng(s) : s \in Seeds}
    /\ handlers = [h \in Handlers |-> Idle]
    /\ tasks = EmptyBag
    /\ announced = {}
    /\ n2r = NoExchange
    /\ fetch = NoFetch
    /\ life = "running"
    /\ cli = NoCli

\* A GET arrives: it is routed and passes the middleware.
Arrive ==
    /\ n2r.phase = "none"
    /\ \E accept \in Accepts, query \in Queries :
          LET req == [uri |-> "/uri-res/N2R", authorization |-> "absent"]
          IN  /\ Route("GET", req.uri) = "name_to_resource"
              /\ authenticate(ConfiguredAuth, req) = "next"
              /\ n2r' = [phase |-> "received", accept |-> accept, query |-> query]
    /\ UNCHANGED <<store, rng, handlers, tasks, announced, fetch, life, cli>>

\* name_to_resource keeping what it fetched: each block obtained from a peer is
\* written to the store and announced.
Answer_caching ==
    /\ n2r.phase = "received"
    /\ \E io \in BOOLEAN, dht \in ReadDhts :
          LET state == [store |-> store, dht |-> dht, io |-> io]
              resp  == name_to_resource(state, n2r.accept, n2r.query)
              got   == {i \in 1..Len(resp.reads) : resp.reads[i].ok /\ resp.reads[i].gets > 0}
          IN  /\ n2r' = [phase |-> "answered", accept |-> n2r.accept, query |-> n2r.query,
                         io |-> io, dht |-> dht, resp |-> resp]
              /\ store' = [r \in DOMAIN store \cup {resp.reads[i].reference : i \in got} |->
                             IF r \in DOMAIN store THEN store[r]
                             ELSE resp.reads[CHOOSE i \in got : resp.reads[i].reference = r].block]
              /\ tasks' = tasks (+) SetToBag({try_ref_to_id(resp.reads[i].reference) : i \in got})
    /\ UNCHANGED <<rng, handlers, announced, fetch, life, cli>>

\* name_to_resource answers it; io and dht are what the store and the network
\* do while it runs.
Answer ==
    /\ n2r.phase = "received"
    /\ \E io \in BOOLEAN, dht \in ReadDhts :
          LET state == [store |-> store, dht |-> dht, io |-> io]
          IN  n2r' = [phase |-> "answered", accept |-> n2r.accept, query |-> n2r.query,
                      io |-> io, dht |-> dht,
                      resp |-> name_to_resource(state, n2r.accept, n2r.query)]
    /\ UNCHANGED <<store, rng, handlers, tasks, announced, fetch, life, cli>>

\* The response is written and the connection is free for the next request.
Close ==
    /\ n2r.phase = "answered"
    /\ n2r' = NoExchange
    /\ UNCHANGED <<store, rng, handlers, tasks, announced, fetch, life, cli>>

NextRead == Arrive \/ Answer \/ Close

SpecRead == InitRead /\ [][NextRead]_vars

(* --------------------------- fetch_block alone ------------------------- *)

\* What one get_peers query yields: no batch, one batch, or two short ones.
Rounds ==
    {<<>>} \cup {<<peers>> : peers \in PeerLists}
    \cup {<<a, b>> : a \in SeqsUpTo(PeerKinds, 1), b \in SeqsUpTo(PeerKinds, 1)}

FetchDhts ==
    {[bootstrapped |-> boot, answers |-> <<first, later>>] :
     boot \in BOOLEAN, first \in Rounds, later \in Rounds}

FetchReferences == {UnknownReference, Encode(PBlock, UploadKey, Size1KiB).blocks[1].reference}

InitFetch ==
    /\ store = <<>>
    /\ rng \in {from_os_rng(s) : s \in Seeds}
    /\ handlers = [h \in Handlers |-> Idle]
    /\ tasks = EmptyBag
    /\ announced = {}
    /\ n2r = NoExchange
    /\ fetch \in {[phase |-> "called", reference |-> r, dht |-> d, check |-> c] :
                   r \in FetchReferences, d \in FetchDhts, c \in BOOLEAN}
    /\ life = "running"
    /\ cli = NoCli

Call ==
    /\ fetch.phase = "called"
    /\ fetch' = [phase |-> "returned", reference |-> fetch.reference, dht |-> fetch.dht,
                 check |-> fetch.check,
                 result |-> fetch_block(fetch.reference, fetch.dht, fetch.check)]
    /\ UNCHANGED <<store, rng, handlers, tasks, announced, n2r, life, cli>>

NextFetch == Call

SpecFetch == InitFetch /\ [][NextFetch]_vars

(* ------------------------------- shutdown ------------------------------ *)

MaxTasks == 2

\* The uploads sent while the node is being stopped: two JSON documents of one
\* block each, with the token.
StopRequests ==
    {[uri |-> "/uri-res/R2N", authorization |-> ConfiguredAuth,
      content_type |-> "application/json", body |-> Raw(p)] :
     p \in {PObject, PString(LongJson)}}

\* The peer ids of their blocks.
StopIds ==
    {try_ref_to_id(Serve(from_os_rng(s), req).pending[1].reference) :
     s \in Seeds, req \in StopRequests}

\* A client's next upload; clients hold back while announcements are queued.
Busy(h) ==
    /\ BagCardinality(tasks) < MaxTasks
    /\ Accept(h, StopRequests)

\* The response is written and the connection waits for its next request.
Respond(h) ==
    /\ life # "exited"
    /\ handlers[h].pc = "done"
    /\ handlers' = [handlers EXCEPT ![h] = Idle]
    /\ UNCHANGED <<store, rng, tasks, announced, n2r, fetch, life, cli>>

\* The task spawned in main: ctrl_c() returns, tracker.close(), token.cancel().
Signal ==
    /\ life = "running"
    /\ life' = Tracked("closed", tasks)
    /\ UNCHANGED <<store, rng, handlers, tasks, announced, n2r, fetch, cli>>

\* The future given to with_graceful_shutdown, tracker.wait(), is ready: the
\* server stops taking requests and lets those in flight finish.
Shutdown ==
    /\ life = "notified"
    /\ life' = "draining"
    /\ UNCHANGED <<store, rng, handlers, tasks, announced, n2r, fetch, cli>>

\* Every request in flight is answered: axum::serve returns, main returns
\* Ok(()), and the runtime is dropped with the tasks it has not run yet.
Exit ==
    /\ life = "draining"
    /\ \A h \in Handlers : handlers[h].pc = "idle"
    /\ life' = "exited"
    /\ UNCHANGED <<store, rng, handlers, tasks, announced, n2r, fetch, cli>>

NextStop ==
    \/ \E h \in Handlers : Busy(h)
    \/ \E h \in Handlers : Sink(h)
    \/ \E h \in Handlers : Respond(h)
    \/ Announce
    \/ Signal
    \/ Shutdown
    \/ Exit

SpecStop == Init /\ [][NextStop]_vars

\* Every handler runs on, every spawned task is run, the server acts on the
\* shutdown future; nothing is assumed of the clients or of the signal.
SpecStopFair ==
    /\ SpecStop
    /\ \A h \in Handlers : WF_vars(Sink(h)) /\ WF_vars(Respond(h))
    /\ \A id \in StopIds : WF_vars(Task(id))
    /\ WF_vars(Shutdown)
    /\ WF_vars(Exit)

(* ------------------------------- apsisctl ------------------------------ *)

\* The command lines: upload --auth A (--json DATA | --file PATH) and
\* download (--stdout | --file PATH) URN; data is the JSON text or the bytes of
\* the file at PATH.
CliCommands ==
    {[verb |-> "upload", auth |-> a, input |-> "json", data |-> p] :
     a \in {ConfiguredAuth, "wrong"}, p \in JsonBodies}
    \cup {[verb |-> "upload", auth |-> a, input |-> "file", data |-> p] :
           a \in {ConfiguredAuth, "wrong"}, p \in FileBodies}
    \cup {[verb |-> "download", output |-> o, urn |-> to_urn(c)] :
           o \in {"stdout", "file"}, c \in KnownCapabilities}
    \cup {[verb |-> "download", output |-> o, urn |-> ref_to_urn(UnknownReference)] :
           o \in {"stdout", "file"}}

\* The POST the upload branch builds: the JSON branch sets Content-Type, the
\* file branch sets only Authorization and sends the file as the body.
Upload_request(command) ==
    [uri |-> "/uri-res/R2N", authorization |-> command.auth,
     content_type |-> IF command.input = "json" THEN "application/json" ELSE "absent",
     body |-> Raw(command.data)]

\* The headers reqwest adds to a request that sets none: Accept: */*.
DefaultAccept == "*/*"

InitCli ==
    /\ store \in PersistedStores
    /\ rng \in {from_os_rng(s) : s \in Seeds}
    /\ handlers = [h \in Handlers |-> Idle]
    /\ tasks = EmptyBag
    /\ announced = {}
    /\ n2r = NoExchange
    /\ fetch = NoFetch
    /\ life = "running"
    /\ cli \in {[pc |-> "start", command |-> c] : c \in CliCommands}

\* Commands::Upload up to send(): the request reaches the node and runs up to
\* encode's first call of the sink.
CliPost ==
    /\ cli.pc = "start" /\ cli.command.verb = "upload"
    /\ Accepting
    /\ \E h \in Handlers :
          /\ handlers[h].pc = "idle"
          /\ handlers' = [handlers EXCEPT ![h] = Serve(rng, Upload_request(cli.command))]
          /\ rng' = IF Handled(Upload_request(cli.command))
                    THEN Extractor(rng, fill_bytes(rng).rng) ELSE rng
          /\ cli' = [pc |-> "sent", command |-> cli.command, handler |-> h]
    /\ UNCHANGED <<store, tasks, announced, n2r, fetch, life>>

\* println!("{}", res.text()): the body of the response, whatever its status.
CliPrinted ==
    /\ cli.pc = "sent" /\ cli.command.verb = "upload"
    /\ handlers[cli.handler].pc = "done"
    /\ cli' = [pc |-> "done", command |-> cli.command, handler |-> cli.handler,
               stdout |-> handlers[cli.handler].resp.body, file |-> None]
    /\ UNCHANGED <<store, rng, handlers, tasks, announced, n2r, fetch, life>>

\* Commands::Download up to send(): GET /uri-res/N2R?<urn>.
CliGet ==
    /\ cli.pc = "start" /\ cli.command.verb = "download"
    /\ Accepting
    /\ n2r.phase = "none"
    /\ Route("GET", "/uri-res/N2R") = "name_to_resource"
    /\ n2r' = [phase |-> "received", accept |-> DefaultAccept,
               query |-> Query(cli.command.urn)]
    /\ cli' = [pc |-> "sent", command |-> cli.command]
    /\ UNCHANGED <<store, rng, handlers, tasks, announced, fetch, life>>

\* The body of the response goes to stdout, or to the file with a line saying
\* so on stdout; the status is not looked at.
CliOutput ==
    /\ cli.pc = "sent" /\ cli.command.verb = "download"
    /\ n2r.phase = "answered"
    /\ cli' = IF cli.command.output = "stdout"
              THEN [pc |-> "done", command |-> cli.command,
                    stdout |-> n2r.resp.body, file |-> None]
              ELSE [pc |-> "done", command |-> cli.command,
                    stdout |-> Text("Wrote to file"), file |-> n2r.resp.body]
    /\ UNCHANGED <<store, rng, handlers, tasks, announced, n2r, fetch, life>>

NextCli ==
    \/ CliPost
    \/ \E h \in Handlers : Sink(h)
    \/ Announce
    \/ CliPrinted
    \/ CliGet
    \/ Answer
    \/ CliOutput

SpecCli == InitCli /\ [][NextCli]_vars

(* ------------------------------- uploads ------------------------------- *)

Upload_of(h) == handlers[h].pc # "idle" /\ handlers[h].req.uri = "/uri-res/R2N"

Answered(h) == handlers[h].pc = "done" /\ handlers[h].req.uri = "/uri-res/R2N"

SunkRefs(me) == {me.sunk[i].reference : i \in 1..Len(me.sunk)}

AllWritten(me) == me.sunk # <<>> /\ \A i \in 1..Len(me.sunk) : me.sunk[i].ok

\* The node cut off from the network: only the local store answers.
Alone == [store |-> store, dht |-> [bootstrapped |-> FALSE, answers |-> <<<<>>>>], io |-> TRUE]

\* C1: every POST /uri-res/R2N whose Authorization header is absent or differs
\* from the configured token is answered 401, and for it the encoder never runs:
\* no block is handed to the sink, so none is written or announced.
C1_UnauthorizedIs401 ==
    \A h \in Handlers :
        (Upload_of(h) /\ handlers[h].req.authorization # ConfiguredAuth)
        => /\ handlers[h].pc = "done"
           /\ handlers[h].resp.status = 401
           /\ handlers[h].sunk = <<>>

\* C7: an upload is answered 201 exactly when encode ended with every emitted
\* block written; then the body is the capability URN and the capability can be
\* read back from the store alone.  A failed write ends the upload with 422 and no
\* URN.  A media type that is neither JSON nor multipart gets 415.
C7_UploadStatus ==
    \A h \in Handlers :
        Answered(h) =>
            LET me == handlers[h]
            IN  /\ (me.resp.status = 201) <=> AllWritten(me)
                /\ me.resp.status = 201 =>
                      /\ "urn" \in DOMAIN me.resp.body
                      /\ from_urn(me.resp.body.urn).some
                      /\ SunkRefs(me) \subseteq DOMAIN store
                      /\ Decode(Alone, from_urn(me.resp.body.urn).capability).ok
                /\ (\E i \in 1..Len(me.sunk) : ~me.sunk[i].ok) =>
                      /\ me.resp.status = 422
                      /\ "urn" \notin DOMAIN me.resp.body
                /\ me.req.content_type \notin {"application/json", "multipart/form-data"} =>
                      /\ me.resp.status = 415
                      /\ me.sunk = <<>>

\* One upload created after three blocks, another ended by a failed write, and a
\* third media type refused are all reached (two at a time).
C7_Witness ==
    \E a \in Handlers, b \in Handlers :
        /\ Answered(a) /\ handlers[a].resp.status = 201 /\ Len(handlers[a].sunk) = 3
        /\ Answered(b) /\ handlers[b].resp.status = 422 /\ Len(handlers[b].sunk) = 2
        /\ ~handlers[b].sunk[2].ok

SameContent(a, b) ==
    /\ handlers[a].req.content_type = handlers[b].req.content_type
    /\ handlers[a].req.body = handlers[b].req.body

\* C10: when an upload has been created and the other upload carries the same
\* content, whatever the interleaving of their sink calls, the store holds
\* exactly the blocks the one upload wrote, each under its hash, and the other
\* upload, once created, returned the same capability.
C10_SameContentSameBlocks ==
    \A a \in Handlers : \A b \in Handlers \ {a} :
        (Answered(a) /\ handlers[a].resp.status = 201 /\ Upload_of(b) /\ SameContent(a, b))
        => /\ DOMAIN store = SunkRefs(handlers[a])
           /\ \A r \in DOMAIN store : Blake2b(store[r], None) = r
           /\ (Answered(b) /\ handlers[b].resp.status = 201)
                 => handlers[b].resp.body = handlers[a].resp.body

\* Two uploads of the same three-block file, both created.
C10_Witness ==
    \E a \in Handlers : \E b \in Handlers \ {a} :
        /\ Answered(a) /\ handlers[a].resp.status = 201 /\ Len(handlers[a].sunk) = 3
        /\ Answered(b) /\ handlers[b].resp.status = 201 /\ SameContent(a, b)

(* ----------------------------- fetch_block ----------------------------- *)

Returned == fetch.phase = "returned"

RECURSIVE Flat(_)
Flat(batches) == IF batches = <<>> THEN <<>> ELSE batches[1] \o Flat(Tail(batches))

\* The peers the q-th query of the call yields, in the order they are asked.
Asked(dht, q) == Flat(dht.answers[((q - 1) % Len(dht.answers)) + 1])

Held(reference) == \E b \in PeerBlocks : b.reference = reference

\* C3: a block returned by fetch_block with check = TRUE hashes to the reference
\* asked for; a peer whose body hashes to something else is passed over, so that
\* behind any number of such peers the next peer holding the block is asked and
\* its block returned.
C3_FetchedBlockVerifies ==
    (Returned /\ fetch.check) =>
        /\ fetch.result.kind = "Ok" => Blake2b(fetch.result.block, None) = fetch.reference
        /\ \A i \in 1..Len(Asked(fetch.dht, 1)) :
              (/\ fetch.dht.bootstrapped
               /\ Held(fetch.reference)
               /\ Asked(fetch.dht, 1)[i] = "honest"
               /\ \A j \in 1..(i - 1) : Asked(fetch.dht, 1)[j] = "liar")
              => /\ fetch.result.kind = "Ok"
                 /\ fetch.result.gets = i
                 /\ fetch.result.queries = 1

\* A checked call answered by the second peer, the first having altered the block.
C3_Witness ==
    /\ Returned /\ fetch.check /\ fetch.dht.bootstrapped
    /\ Asked(fetch.dht, 1) = <<"liar", "honest">>
    /\ fetch.result.kind = "Ok" /\ fetch.result.gets = 2

\* C4: a network error on one peer passes on to the next peer, so a call whose
\* rounds hold a peer with the block succeeds whatever errors come before it.
C4_NetworkErrorSkipsPeer ==
    (/\ Returned /\ fetch.check /\ fetch.dht.bootstrapped /\ Held(fetch.reference)
     /\ \E q \in 1..MAX_PEER_RETRIES : \E i \in 1..Len(Asked(fetch.dht, q)) :
            Asked(fetch.dht, q)[i] = "honest")
    => fetch.result.kind = "Ok"

\* C5: a call makes at most MAX_PEER_RETRIES get_peers queries, and a call in
\* which no peer returned a verifying body ends with BlockNotFound.
C5_ThreeRoundsThenNotFound ==
    (Returned /\ fetch.check) =>
        /\ fetch.result.queries <= MAX_PEER_RETRIES
        /\ fetch.result.kind # "Ok" => fetch.result.kind = "BlockNotFound"

(* -------------------------------- reads -------------------------------- *)

Exchange == n2r.phase = "answered"

\* The uploads whose capabilities are asked for: payload, capability, blocks.
KnownUploads ==
    {[payload |-> p, enc |-> Encode(p, UploadKey, Size1KiB)] : p \in PeerPayloads \cup {PText}}

TreeRefs(u) == {u.enc.blocks[i].reference : i \in 1..Len(u.enc.blocks)}

AskedFor(u) == Exchange /\ n2r.query = Query(to_urn(u.enc.capability))

\* Every block of the tree was handed to the decoder, each hashing to its reference.
AllResolved(u) ==
    /\ Len(n2r.resp.reads) = Cardinality(TreeRefs(u))
    /\ \A i \in 1..Len(n2r.resp.reads) :
          /\ n2r.resp.reads[i].ok
          /\ Blake2b(n2r.resp.reads[i].block, None) = n2r.resp.reads[i].reference

HonestPeer == \E i \in 1..Len(Asked(n2r.dht, 1)) : Asked(n2r.dht, 1)[i] = "honest"

\* C2: each resolver call reads the store first and turns to the DHT and the
\* peers only when the store reports the block absent; a block the store holds
\* is returned as stored with no peer traffic; and a capability whose missing
\* blocks a peer serves with matching hash is read successfully.
C2_LocalFirstThenPeers ==
    Exchange =>
        /\ \A i \in 1..Len(n2r.resp.reads) :
              LET r == n2r.resp.reads[i]
              IN  /\ (r.queries > 0 \/ r.gets > 0) => r.local = "absent"
                  /\ r.local = "absent" <=> (n2r.io /\ r.reference \notin DOMAIN store)
                  /\ r.local = "present" =>
                        /\ r.ok /\ r.queries = 0 /\ r.gets = 0
                        /\ r.block = store[r.reference]
        /\ \A u \in KnownUploads :
              (/\ AskedFor(u) /\ n2r.accept = "application/octet-stream"
               /\ u.payload \in PeerPayloads
               /\ n2r.io /\ n2r.dht.bootstrapped /\ HonestPeer
               /\ \A r \in TreeRefs(u) \cap DOMAIN store : Blake2b(store[r], None) = r)
              => n2r.resp.status = 200

\* C6: when a block of the capability's tree is in the store with bytes that do
\* not hash to its reference, GET N2R on the capability is answered 404 with a
\* message, never with reconstructed bytes.
C6_CorruptBlockIs404 ==
    \A u \in KnownUploads :
        (/\ AskedFor(u)
         /\ \E r \in TreeRefs(u) \cap DOMAIN store : Blake2b(store[r], None) # r)
        => /\ n2r.resp.status = 404
           /\ "text" \in DOMAIN n2r.resp.body

\* The altered block is a leaf below an intact root, and an honest peer holds
\* the true block.
C6_Witness ==
    \E u \in KnownUploads :
        /\ AskedFor(u) /\ n2r.io /\ n2r.dht.bootstrapped /\ HonestPeer
        /\ u.enc.capability.level = 1
        /\ u.enc.capability.root_reference \in DOMAIN store
        /\ Blake2b(store[u.enc.capability.root_reference], None)
              = u.enc.capability.root_reference
        /\ \E r \in TreeRefs(u) \cap DOMAIN store : Blake2b(store[r], None) # r
        /\ n2r.resp.status = 404

\* C8: for a capability, a failed decode is answered 404; a successful one is
\* answered by Accept: application/json gives 200 with the JSON when the payload
\* is JSON and 422 when it is not, application/octet-stream gives 200 with the
\* payload bytes, anything else or no Accept gives 404.
C8_CapabilityResponse ==
    \A u \in KnownUploads :
        AskedFor(u) =>
            IF ~AllResolved(u) THEN n2r.resp.status = 404
            ELSE IF n2r.accept = "application/json"
            THEN IF u.payload = PObject
                 THEN n2r.resp.status = 200 /\ n2r.resp.body = [json |-> PObject]
                 ELSE n2r.resp.status = 422
            ELSE IF n2r.accept = "application/octet-stream"
            THEN n2r.resp.status = 200 /\ n2r.resp.body = [bytes |-> u.payload]
            ELSE n2r.resp.status = 404

\* A decoded three-block payload that is no JSON, asked for as JSON.
C8_Witness ==
    \E u \in KnownUploads :
        /\ AskedFor(u) /\ AllResolved(u) /\ Cardinality(TreeRefs(u)) = 3
        /\ n2r.accept = "application/json" /\ n2r.resp.status = 422

BareReferences == {b.reference : b \in PeerBlocks} \cup {UnknownReference}

\* C9: for a bare reference the body is the block as stored, or as fetched from a
\* peer and hashing to the reference, undecrypted; the answer is 404 when the
\* block is neither stored nor held by a peer the DHT yields; a query that is
\* neither a capability nor a bare reference gets a 4xx status.
C9_BareReferenceResponse ==
    (Exchange /\ \A u \in KnownUploads : ~AskedFor(u)) =>
        IF \E r \in BareReferences : n2r.query = Query(ref_to_urn(r))
        THEN LET r == CHOOSE x \in BareReferences : n2r.query = Query(ref_to_urn(x))
             IN  /\ n2r.resp.status \in {200, 404}
                 /\ n2r.resp.status = 200 =>
                       /\ "block" \in DOMAIN n2r.resp.body
                       /\ IF r \in DOMAIN store THEN n2r.resp.body.block = store[r]
                          ELSE Blake2b(n2r.resp.body.block, None) = r
                 /\ (n2r.io /\ r \in DOMAIN store) => n2r.resp.status = 200
                 /\ (r \notin DOMAIN store
                     /\ (~n2r.dht.bootstrapped \/ ~HonestPeer \/ ~Held(r)))
                       => n2r.resp.status = 404
        ELSE n2r.resp.status \in 400..499

\* A block the store lacks, fetched from the second peer after an altered one.
C9_Witness ==
    /\ Exchange
    /\ \E r \in BareReferences :
          /\ n2r.query = Query(ref_to_urn(r)) /\ r \notin DOMAIN store
          /\ Asked(n2r.dht, 1) = <<"liar", "honest">>
          /\ n2r.resp.status = 200

(* ----------------------------- the write sink --------------------------- *)

\* A step in which encode of handler h calls the sink.
Sinking(h) == handlers[h].pc = "encoding" /\ handlers'[h] # handlers[h]

\* What the sink returned in that step.
Result(h) == handlers'[h].sunk[Len(handlers'[h].sunk)]

\* C13: the sink's result is that of the store write alone and the sink call
\* runs no announcement; a step that runs an announcement, failed or not,
\* changes neither the store nor any handler, so neither a sink result nor a
\* response.
C13_AnnounceOutsideWritePath ==
    [][/\ \A h \in Handlers :
             Sinking(h) =>
                 /\ announced' = announced
                 /\ Result(h).ok =>
                       /\ Result(h).reference \in DOMAIN store'
                       /\ store'[Result(h).reference] = Head(handlers[h].pending).block
                 /\ ~Result(h).ok => store' = store
       /\ (announced' # announced \/ BagCardinality(tasks') < BagCardinality(tasks))
             => (handlers' = handlers /\ store' = store)]_vars

\* An upload created although every announcement of its blocks failed.
C13_Witness ==
    \E h \in Handlers :
        /\ Answered(h) /\ handlers[h].resp.status = 201 /\ Len(handlers[h].sunk) = 3
        /\ tasks = EmptyBag /\ announced = {}

\* C14: each sink call that writes a block to the store adds to the tracker one
\* announcement of the id made of the first 20 bytes of the block's reference,
\* for JSON and for multipart uploads alike.
C14_WrittenBlockAnnounced ==
    [][\A h \in Handlers :
          (Sinking(h) /\ Result(h).ok) =>
              LET id == [prefix |-> 20, of |-> Result(h).reference]
              IN  /\ Result(h).reference \in DOMAIN store'
                  /\ CopiesIn(id, tasks') = CopiesIn(id, tasks) + 1]_vars

\* A JSON upload and a multipart upload both created, their four announcements
\* waiting on the tracker.
C14_Witness ==
    \E a \in Handlers, b \in Handlers :
        /\ Answered(a) /\ handlers[a].resp.status = 201
        /\ handlers[a].req.content_type = "application/json"
        /\ Answered(b) /\ handlers[b].resp.status = 201
        /\ handlers[b].req.content_type = "multipart/form-data"
        /\ Len(handlers[b].sunk) = 3
        /\ BagCardinality(tasks) = 4

\* C15: on every store the node reaches, writing a block a second time under
\* the same reference succeeds, leaves the store as the first write left it and
\* returns the same length, and a read of the reference then returns the block.
C15_WriteIdempotent ==
    \A b \in PeerBlocks :
        /\ Db_write_block(Db_write_block(store, b.reference, b.block, TRUE).store,
                          b.reference, b.block, TRUE)
              = Db_write_block(store, b.reference, b.block, TRUE)
        /\ Db_write_block(store, b.reference, b.block, TRUE).ok
        /\ Db_write_block(store, b.reference, b.block, TRUE).length = BlockLen(b.block)
        /\ Db_read_block(Db_write_block(store, b.reference, b.block, TRUE).store,
                         b.reference, TRUE)
              = [ok |-> TRUE, some |-> TRUE, block |-> b.block]

\* Two uploads have each written the same block, and the store holds it.
C15_Witness ==
    \E a \in Handlers : \E b \in Handlers \ {a} :
        /\ handlers[a].pc = "done" /\ handlers[b].pc = "done"
        /\ \E i \in 1..Len(handlers[a].sunk) : \E j \in 1..Len(handlers[b].sunk) :
              /\ handlers[a].sunk[i].ok /\ handlers[b].sunk[j].ok
              /\ handlers[a].sunk[i].reference = handlers[b].sunk[j].reference
              /\ handlers[a].sunk[i].reference \in DOMAIN store

\* C16: every entry of the store is a block under its own BLAKE2b-256 hash, 1024
\* or 32768 bytes long.
C16_StoreEntriesAreBlocks ==
    \A r \in DOMAIN store :
        /\ Blake2b(store[r], None) = r
        /\ BlockLen(store[r]) \in {1024, 32768}

\* The store holds a block of each size.
C16_Witness ==
    /\ \E r \in DOMAIN store : BlockLen(store[r]) = 1024
    /\ \E r \in DOMAIN store : BlockLen(store[r]) = 32768

\* C19: encode is called with block size 1 KiB when the payload is JSON of less
\* than 1000 bytes, and with 32 KiB in every other case.
C19_BlockSizeBySize ==
    \A h \in Handlers :
        handlers[h].pc = "encoding" =>
            handlers[h].capability.block_size =
                IF /\ handlers[h].req.content_type = "application/json"
                   /\ BLen(handlers[h].req.body.bytes) < 1000
                THEN 1024 ELSE 32768

(* ------------------------------- stopping ------------------------------ *)

\* C11: when the process has exited after the signal, every announcement task
\* spawned by a write has been run, those spawned by handlers that were in
\* flight when the signal came included.
C11_AnnouncementsAwaited == life = "exited" => tasks = EmptyBag

\* C12: once the tracker is closed no step takes a new request into a handler
\* and no step adds a task to the tracker.
C12_ClosedRefusesNewWork ==
    [][life # "running" =>
          /\ \A h \in Handlers : handlers[h].pc = "idle" => handlers'[h].pc = "idle"
          /\ BagCardinality(tasks') <= BagCardinality(tasks)]_vars

\* C20: after the signal the process exits in the end, every handler and every
\* announcement task running to its end, whatever the clients send.
C20_SignalLeadsToExit == (life # "running") ~> (life = "exited")

(* -------------------------- the command line --------------------------- *)

CliDone(verb) == cli.pc = "done" /\ cli.command.verb = verb

\* C17: an upload of a file with the node's token ends with the node having
\* encoded the file and, its blocks written, with the capability URN of the
\* file's contents on stdout.
C17_CliFileUpload ==
    (CliDone("upload") /\ cli.command.input = "file" /\ cli.command.auth = ConfiguredAuth)
    => /\ handlers[cli.handler].sunk # <<>>
       /\ AllWritten(handlers[cli.handler]) =>
             /\ "urn" \in DOMAIN cli.stdout
             /\ from_urn(cli.stdout.urn).some
             /\ Decode(Alone, from_urn(cli.stdout.urn).capability).bytes = cli.command.data

\* C18: a download of a capability whose blocks the node resolved, all of them,
\* writes the payload uploaded to stdout, or to the file chosen.
C18_CliDownload ==
    \A u \in KnownUploads :
        (/\ CliDone("download") /\ cli.command.urn = to_urn(u.enc.capability)
         /\ AskedFor(u) /\ AllResolved(u))
        => IF cli.command.output = "stdout"
           THEN cli.stdout = [bytes |-> u.payload]
           ELSE cli.file = [bytes |-> u.payload]

(* --------------------------- secrets and frames ------------------------- *)

\* C21: the generator held in the state is never advanced by a request, and
\* every upload inside encode holds the key that is the first 32 bytes of that
\* generator, so all uploads of a running node use one convergence secret.
C21_OneConvergenceSecret ==
    /\ rng \in {from_os_rng(s) : s \in Seeds}
    /\ \A h \in Handlers :
          handlers[h].pc = "encoding" =>
              /\ handlers[h].key = fill_bytes(rng).key
              /\ \A g \in Handlers :
                    handlers[g].pc = "encoding" => handlers[g].key = handlers[h].key

\* Two uploads of different content inside encode, the second received after
\* the first had drawn its key.
C21_Witness ==
    \E a \in Handlers : \E b \in Handlers \ {a} :
        /\ handlers[a].pc = "encoding" /\ handlers[b].pc = "encoding"
        /\ handlers[a].req.body # handlers[b].req.body
        /\ handlers[a].sunk # <<>>

\* C22: every announcement scheduled or made is of the id of a block the store
\* holds: the sink schedules none for a block whose write failed.
C22_AnnouncedOnlyIfStored ==
    \A id \in BagToSet(tasks) \cup announced :
        \E r \in DOMAIN store : id = [prefix |-> 20, of |-> r]

\* C23: a step of a GET N2R exchange changes no entry of the store and
\* schedules and makes no announcement; a block it fetched from a peer is in
\* the response's reads but not in the store afterwards.
C23_ReadLeavesStore ==
    [][n2r' # n2r =>
          /\ store' = store /\ tasks' = tasks /\ announced' = announced
          /\ n2r'.phase = "answered" =>
                \A i \in 1..Len(n2r'.resp.reads) :
                    (n2r'.resp.reads[i].ok /\ n2r'.resp.reads[i].gets > 0)
                    => n2r'.resp.reads[i].reference \notin DOMAIN store']_vars

\* A capability answered 200 with a block fetched from a peer.
C23_Witness ==
    /\ Exchange /\ n2r.resp.status = 200
    /\ \E i \in 1..Len(n2r.resp.reads) :
          /\ n2r.resp.reads[i].ok /\ n2r.resp.reads[i].gets > 0
          /\ n2r.resp.reads[i].reference \notin DOMAIN store
    /\ Len(n2r.resp.reads) = 3

====
